---------------------------- MODULE Spec2Model ----------------------------
(***************************************************************************)
(* A model of gmail-cli (src/app.js): the query builder                    *)
(* constructSearchQuery, the date-range partitioner parseBatchSize, the    *)
(* "emails search" command that drives searchEmails once per date range,   *)
(* and the "labels list" command with listLabels.                          *)
(*                                                                         *)
(* Strings are TLA+ strings (TLC concatenates them with \o and cuts them   *)
(* with SubSeq).  A Date is the number of its local calendar day, counted  *)
(* from 1970-01-01; every Date the program builds is a local midnight, so  *)
(* the day number is the whole value.  NaN stands for the number NaN and   *)
(* for an Invalid Date alike (an Invalid Date is a Date whose time is NaN).*)
(***************************************************************************)
EXTENDS Integers, Sequences, FiniteSets, TLC

VARIABLES
    opts,          \* the options commander hands to the action (app.js 350-359)
    tzEast,        \* environment: TRUE when local midnight is the previous UTC day
    pc,            \* position of the running command
    err,           \* the error the command ended in ("" while there is none)
    start,         \* parseBatchSize: const start (app.js 183)
    end,           \* parseBatchSize: const end (app.js 184)
    intervals,     \* parseBatchSize: const intervals (app.js 186)
    duration,      \* parseBatchSize: const duration (app.js 203-205)
    currentStart,  \* parseBatchSize: let currentStart (app.js 192, 209)
    i,             \* parseBatchSize: the for loop's i (app.js 193)
    dateRanges,    \* action: const dateRanges (app.js 370)
    rangeIdx,      \* action: number of ranges the for-of loop has taken (app.js 373)
    criteria,      \* action: const criteria (app.js 360-368)
    query,         \* searchEmails: const query (app.js 262)
    messages,      \* searchEmails: listResponse.data.messages (app.js 275)
    slots,         \* searchEmails: the results Promise.all has collected (app.js 276)
    inflight,      \* remote calls issued and not yet settled
    allMessages,   \* action: let allMessages (app.js 371)
    calls,         \* history: every call issued to a collaborator, in order
    returned,      \* history: what each completed searchEmails call returned
    output,        \* what formatOutput was handed (app.js 340-343, 383)
    labels,        \* listLabels: const labels = res.data.labels (app.js 149)
    stdout         \* the lines console.log has printed

vars == <<opts, tzEast, pc, err, start, end, intervals, duration, currentStart, i,
          dateRanges, rangeIdx, criteria, query, messages, slots, inflight,
          allMessages, calls, returned, output, labels, stdout>>

partVars == <<start, end, intervals, duration, currentStart, i>>
searchVars == <<rangeIdx, criteria, query, messages, slots, inflight,
                allMessages, calls, returned, output>>
labelVars == <<labels, stdout>>

-----------------------------------------------------------------------------
(* Bounds of the model. *)

MaxCount == 4        \* integer batch sizes drawn: 0..MaxCount
MaxAmount == 2       \* duration amounts drawn: 0..MaxAmount
MaxSpan == 62        \* endDate - startDate drawn from -2..MaxSpan (and a year)
MaxIntervals == 3    \* iterations followed of a loop that makes no progress
MaxMsgs == 2         \* messages a list response holds at most
MaxSearchSpan == 2   \* endDate - startDate drawn for the search command
MaxSearchCount == 3  \* integer batch sizes drawn for the search command

\* maxResults: limit || 500 (app.js 268).
DefaultMaxResults == 500

-----------------------------------------------------------------------------
(* Values. *)

\* undefined: an option that was not given, a missing array element.
Undefined == "<undefined>"

\* NaN and Invalid Date.  Below every day number and every count of the model.
NaN == -(10 * 1000 * 1000)

Min(a, b) == IF a <= b THEN a ELSE b

\* JavaScript truthiness of an option value that is undefined or a string
\* (app.js 55-71: if (criteria.keyword) ...): undefined and "" are falsy.
Truthy(v) == v # Undefined /\ v # ""

-----------------------------------------------------------------------------
(* The calendar behind Date, date-fns parse/add and toISOString. *)

IsLeap(y) == (y % 4 = 0 /\ y % 100 # 0) \/ y % 400 = 0

DaysInMonth(y, m) ==
    IF m = 2 THEN (IF IsLeap(y) THEN 29 ELSE 28)
    ELSE IF m \in {4, 6, 9, 11} THEN 30 ELSE 31

\* Day number of the proleptic Gregorian date y-m-d (1970-01-01 is day 0).
DayNum(y, m, d) ==
    LET yy  == IF m <= 2 THEN y - 1 ELSE y
        era == yy \div 400
        yoe == yy - era * 400
        mp  == IF m > 2 THEN m - 3 ELSE m + 9
        doy == (153 * mp + 2) \div 5 + d - 1
        doe == yoe * 365 + yoe \div 4 - yoe \div 100 + doy
    IN  era * 146097 + doe - 719468

\* The date [y, m, d] of a day number.
Civil(z) ==
    LET zz  == z + 719468
        era == zz \div 146097
        doe == zz - era * 146097
        yoe == (doe - doe \div 1460 + doe \div 36524 - doe \div 146096) \div 365
        doy == doe - (365 * yoe + yoe \div 4 - yoe \div 100)
        mp  == (5 * doy + 2) \div 153
        d   == doy - (153 * mp + 2) \div 5 + 1
        m   == IF mp < 10 THEN mp + 3 ELSE mp - 9
        y   == yoe + era * 400 + (IF m <= 2 THEN 1 ELSE 0)
    IN  [y |-> y, m |-> m, d |-> d]

-----------------------------------------------------------------------------
(* Strings: digits, numbers, split. *)

Digits == <<"0", "1", "2", "3", "4", "5", "6", "7", "8", "9">>

Char(s, k) == SubSeq(s, k, k)

IsDigit(c) == \E k \in 1..10 : Digits[k] = c

DigitVal(c) == (CHOOSE k \in 1..10 : Digits[k] = c) - 1

AllDigits(s) == Len(s) > 0 /\ \A k \in 1..Len(s) : IsDigit(Char(s, k))

\* The value of a non-empty string of decimal digits.
RECURSIVE NatOf(_)
NatOf(s) ==
    IF Len(s) = 0 THEN 0
    ELSE 10 * NatOf(SubSeq(s, 1, Len(s) - 1)) + DigitVal(Char(s, Len(s)))

\* ToString(n) padded with zeros to w digits (n >= 0).
RECURSIVE Pad(_, _)
Pad(s, w) == IF Len(s) >= w THEN s ELSE Pad("0" \o s, w)

\* String.prototype.trim over the blank the tokens of the model can hold.
RECURSIVE Trim(_)
Trim(s) ==
    IF Len(s) > 0 /\ Char(s, 1) = " " THEN Trim(SubSeq(s, 2, Len(s)))
    ELSE IF Len(s) > 0 /\ Char(s, Len(s)) = " " THEN Trim(SubSeq(s, 1, Len(s) - 1))
    ELSE s

\* s.split(" "): the pieces of s between single blanks, empty pieces kept.
RECURSIVE SplitFrom(_, _, _)
SplitFrom(s, k, piece) ==
    IF k > Len(s) THEN <<piece>>
    ELSE IF Char(s, k) = " " THEN <<piece>> \o SplitFrom(s, k + 1, "")
    ELSE SplitFrom(s, k + 1, piece \o Char(s, k))

Split(s) == SplitFrom(s, 1, "")

\* Number(s) for a token of blanks, digits, a sign and lower-case letters:
\* blank or empty is 0, an optionally signed digit string is its value,
\* anything else is NaN.
NumberOf(s) ==
    LET t == Trim(s)
    IN  IF t = "" THEN 0
        ELSE IF AllDigits(t) THEN NatOf(t)
        ELSE IF Char(t, 1) = "-" /\ AllDigits(SubSeq(t, 2, Len(t)))
             THEN 0 - NatOf(SubSeq(t, 2, Len(t)))
        ELSE IF Char(t, 1) = "+" /\ AllDigits(SubSeq(t, 2, Len(t)))
             THEN NatOf(SubSeq(t, 2, Len(t)))
        ELSE NaN

\* Number.isInteger(Number(batchSize)) (app.js 188).
IsIntegerToken(s) == NumberOf(s) # NaN

\* The longest prefix of s made of digits.
RECURSIVE DigitPrefix(_)
DigitPrefix(s) ==
    IF Len(s) > 0 /\ IsDigit(Char(s, 1))
    THEN Char(s, 1) \o DigitPrefix(SubSeq(s, 2, Len(s)))
    ELSE ""

\* parseInt(s): leading blanks skipped, an optional sign, then the digits
\* that follow; NaN when there are none (app.js 205, 357).
ParseInt(s) ==
    LET t    == Trim(s)
        neg  == Len(t) > 0 /\ Char(t, 1) = "-"
        sign == Len(t) > 0 /\ Char(t, 1) \in {"-", "+"}
        body == IF sign THEN SubSeq(t, 2, Len(t)) ELSE t
        ds   == DigitPrefix(body)
    IN  IF ds = "" THEN NaN
        ELSE IF neg THEN 0 - NatOf(ds) ELSE NatOf(ds)

\* unit.endsWith("s") (app.js 204).
EndsWithS(u) == Len(u) > 0 /\ Char(u, Len(u)) = "s"

-----------------------------------------------------------------------------
(* Dates. *)

\* The text yyyy-MM-dd of a day number (years of four digits).
FormatDate(z) ==
    LET c == Civil(z)
    IN  Pad(ToString(c.y), 4) \o "-" \o Pad(ToString(c.m), 2) \o "-"
          \o Pad(ToString(c.d), 2)

\* parse(s, "yyyy-MM-dd", new Date()) (app.js 183-184): the local midnight
\* of the date s names, Invalid Date when s names none.
ParseDate(s) ==
    IF s = Undefined \/ Len(s) # 10 THEN NaN
    ELSE LET ys == SubSeq(s, 1, 4)
             ms == SubSeq(s, 6, 7)
             ds == SubSeq(s, 9, 10)
         IN  IF /\ AllDigits(ys) /\ AllDigits(ms) /\ AllDigits(ds)
                /\ Char(s, 5) = "-" /\ Char(s, 8) = "-"
                /\ NatOf(ms) \in 1..12
                /\ NatOf(ds) \in 1..DaysInMonth(NatOf(ys), NatOf(ms))
             THEN DayNum(NatOf(ys), NatOf(ms), NatOf(ds))
             ELSE NaN

\* date.toISOString().slice(0, 10) of a valid Date (app.js 374-375): the UTC
\* date of a local midnight, which east of Greenwich is the day before.
ISODate(z) == FormatDate(IF tzEast THEN z - 1 ELSE z)

\* Comparison of two Dates (app.js 210, 212): false when either is invalid.
DateLT(a, b) == a # NaN /\ b # NaN /\ a < b
DateGT(a, b) == a # NaN /\ b # NaN /\ a > b

\* date-fns addDays.
addDays(date, n) == IF date = NaN THEN NaN ELSE date + n

\* date-fns addMonths: the same day of the month n months on, or the last
\* day of that month when it has no such day.
addMonths(date, n) ==
    IF date = NaN THEN NaN
    ELSE LET c  == Civil(date)
             mi == (c.m - 1) + n
             ty == c.y + (mi \div 12)
             tm == (mi % 12) + 1
         IN  DayNum(ty, tm, Min(c.d, DaysInMonth(ty, tm)))

\* date-fns add(date, {[unit]: amount}) (app.js 11, 194, 207).  A key that is
\* not a duration field, and an amount that is NaN or 0, add nothing.  The
\* tokens of the model name no unit below a day.
add(date, unit, amount) ==
    LET n == IF amount = NaN THEN 0 ELSE amount
    IN  IF unit = "years" THEN (IF n = 0 THEN date ELSE addMonths(date, 12 * n))
        ELSE IF unit = "months" THEN (IF n = 0 THEN date ELSE addMonths(date, n))
        ELSE IF unit = "weeks" THEN (IF n = 0 THEN date ELSE addDays(date, 7 * n))
        ELSE IF unit = "days" THEN (IF n = 0 THEN date ELSE addDays(date, n))
        ELSE date

\* differenceInCalendarDays(end, start) (app.js 189).
differenceInCalendarDays(a, b) == IF a = NaN \/ b = NaN THEN NaN ELSE a - b

-----------------------------------------------------------------------------
(* parseBatchSize (app.js 182-221), one action per loop iteration. *)

\* batchSize where the code uses it as a number (app.js 190, 193, 195).
batchSizeNumber == NumberOf(opts.batchSize)

\* const totalDays (app.js 189).
totalDays == differenceInCalendarDays(end, start)

\* const daysPerBatch = Math.floor(totalDays / batchSize) (app.js 190), read
\* inside the loop only, where batchSize >= 1.
daysPerBatch ==
    IF totalDays = NaN THEN NaN ELSE totalDays \div batchSizeNumber

\* const [amount, unit] = batchSize.split(" ") (app.js 202).
amountText == Split(opts.batchSize)[1]
unitText ==
    IF Len(Split(opts.batchSize)) >= 2 THEN Split(opts.batchSize)[2]
    ELSE Undefined

\* const normalizedUnit (app.js 204); reached only when unit is a string.
normalizedUnit == IF EndsWithS(unitText) THEN unitText ELSE unitText \o "s"

\* duration[normalizedUnit] = parseInt(amount) (app.js 205).
durationAmount == ParseInt(amountText)

\* The end of the interval the for loop is building (app.js 194-197).
countEnd ==
    IF i = batchSizeNumber - 1 THEN end
    ELSE add(currentStart, "days", daysPerBatch)

\* currentStart = add(currentEnd, { days: 1 }) (app.js 199).
countNextStart == add(countEnd, "days", 1)

\* let nextStart = incrementDate(currentStart) (app.js 207, 211): add(date,
\* duration) with the duration object built before the loop.
MutNextStartClamped == Min(add(currentStart, duration.unit, duration.amount), end)
nextStart == add(currentStart, duration.unit, duration.amount)

\* end: nextStart > end ? end : nextStart (app.js 212).
MutDurationEndNoClamp == nextStart
durationEnd == IF DateGT(nextStart, end) THEN end ELSE nextStart

\* Entry of parseBatchSize up to the head of its loop (app.js 183-192,
\* 202-209).  unit.endsWith throws a TypeError when the token has no blank.
parseBatchSizeEntry ==
    /\ pc = "parse"
    /\ start' = ParseDate(opts.startDate)
    /\ end' = ParseDate(opts.endDate)
    /\ intervals' = <<>>
    /\ i' = 0
    /\ IF IsIntegerToken(opts.batchSize)
       THEN /\ pc' = "count"
            /\ currentStart' = start'
            /\ duration' = duration
            /\ err' = err
       ELSE IF unitText = Undefined
       THEN /\ pc' = "error"
            /\ currentStart' = currentStart
            /\ duration' = duration
            /\ err' = "TypeError"
       ELSE /\ pc' = "duration"
            /\ currentStart' = start'
            /\ duration' = [unit |-> normalizedUnit, amount |-> durationAmount]
            /\ err' = err
    /\ UNCHANGED <<opts, tzEast, dateRanges>>
    /\ UNCHANGED searchVars
    /\ UNCHANGED labelVars

\* One iteration of for (let i = 0; i < batchSize; i++) (app.js 193-200).
countIteration ==
    /\ pc = "count"
    /\ i < batchSizeNumber
    /\ intervals' = Append(intervals, [start |-> currentStart, end |-> countEnd])
    /\ currentStart' = countNextStart
    /\ i' = i + 1
    /\ UNCHANGED <<opts, tzEast, pc, err, start, end, duration, dateRanges>>
    /\ UNCHANGED searchVars
    /\ UNCHANGED labelVars

\* One iteration of while (currentStart < end) (app.js 210-214).  A loop
\* whose nextStart does not move forward never ends; the model follows it
\* for MaxIntervals iterations.
durationIteration ==
    /\ pc = "duration"
    /\ DateLT(currentStart, end)
    /\ DateGT(nextStart, currentStart) \/ Len(intervals) < MaxIntervals
    /\ intervals' = Append(intervals, [start |-> currentStart, end |-> durationEnd])
    /\ currentStart' = nextStart
    /\ UNCHANGED <<opts, tzEast, pc, err, start, end, duration, i, dateRanges>>
    /\ UNCHANGED searchVars
    /\ UNCHANGED labelVars

\* The loop is over: return intervals.map(...) (app.js 217-220), bound to
\* dateRanges by the caller (app.js 370).
parseBatchSizeReturn ==
    /\ \/ pc = "count" /\ ~(i < batchSizeNumber)
       \/ pc = "duration" /\ ~DateLT(currentStart, end)
    /\ dateRanges' = intervals
    /\ pc' = "ranges"
    /\ UNCHANGED <<opts, tzEast, err>>
    /\ UNCHANGED partVars
    /\ UNCHANGED searchVars
    /\ UNCHANGED labelVars

-----------------------------------------------------------------------------
(* The partitioner on its own: every input of the bounded sets. *)

Units == {"day", "days", "week", "weeks", "month", "months", "year", "years"}

\* Integer tokens, "<amount> <unit>" tokens, and tokens that are neither.
CountTokens == {ToString(n) : n \in 0..MaxCount}
DurationTokens == {ToString(a) \o " " \o u : a \in 0..MaxAmount, u \in Units}
OtherTokens == {"abc", "1 fortnight", "x days"}

PartAnchors ==
    {DayNum(2023, 12, 30), DayNum(2024, 1, 29), DayNum(2024, 1, 31),
     DayNum(2024, 2, 29)}
PartSpans == ((0 - 2)..MaxSpan) \cup {365, 366}

NoOpts ==
    [keyword |-> Undefined, from |-> Undefined, to |-> Undefined,
     label |-> Undefined, startDate |-> Undefined, endDate |-> Undefined,
     limit |-> Undefined, batchSize |-> "1"]

NoCriteria ==
    [keyword |-> Undefined, from |-> Undefined, to |-> Undefined,
     label |-> Undefined, startDate |-> Undefined, endDate |-> Undefined,
     limit |-> NaN]

IdleSearch ==
    /\ rangeIdx = 0
    /\ criteria = NoCriteria
    /\ query = ""
    /\ messages = <<>>
    /\ slots = <<>>
    /\ inflight = {}
    /\ allMessages = <<>>
    /\ calls = <<>>
    /\ returned = <<>>
    /\ output = Undefined

\* res.data.labels before any response: not defined.
NoLabels == [defined |-> FALSE, items |-> <<>>]

IdleLabels ==
    /\ labels = NoLabels
    /\ stdout = <<>>

\* const duration before any key is set (app.js 203).
NoDuration == [unit |-> Undefined, amount |-> NaN]

IdlePartition ==
    /\ start = NaN
    /\ end = NaN
    /\ intervals = <<>>
    /\ duration = NoDuration
    /\ currentStart = NaN
    /\ i = 0
    /\ dateRanges = <<>>

InitPartition ==
    /\ \E a \in PartAnchors, span \in PartSpans,
          tok \in CountTokens \cup DurationTokens \cup OtherTokens :
          opts = [NoOpts EXCEPT !.startDate = FormatDate(a),
                                !.endDate = FormatDate(a + span),
                                !.batchSize = tok]
    /\ tzEast = FALSE
    /\ pc = "parse"
    /\ err = ""
    /\ IdlePartition
    /\ IdleSearch
    /\ IdleLabels

NextPartition ==
    \/ parseBatchSizeEntry
    \/ countIteration
    \/ durationIteration
    \/ parseBatchSizeReturn

SpecPartition == InitPartition /\ [][NextPartition]_vars

\* The duration branch of parseBatchSize alone (app.js 201-215), over the
\* duration tokens and spans around the month and year boundaries.
DurationSpans == {0 - 1, 0, 1, 29, 30, 31, MaxSpan, 366}

InitDuration ==
    /\ \E a \in PartAnchors, span \in DurationSpans, tok \in DurationTokens :
          opts = [NoOpts EXCEPT !.startDate = FormatDate(a),
                                !.endDate = FormatDate(a + span),
                                !.batchSize = tok]
    /\ tzEast = FALSE
    /\ pc = "parse"
    /\ err = ""
    /\ IdlePartition
    /\ IdleSearch
    /\ IdleLabels

NextDuration ==
    \/ parseBatchSizeEntry
    \/ durationIteration
    \/ parseBatchSizeReturn

\* parseBatchSize is synchronous code: once entered it runs on, step after
\* step, until it returns, throws or loops for ever.
SpecDurationFair == InitDuration /\ [][NextDuration]_vars /\ WF_vars(NextDuration)

-----------------------------------------------------------------------------
(* Claims about the partitioner, checked under SpecPartition. *)

\* parseBatchSize has returned its intervals.
PartitionReturned == pc = "ranges"

\* The batch spec is Count(n) with n >= 1.
IsCountSpec == IsIntegerToken(opts.batchSize) /\ batchSizeNumber >= 1

\* The batch spec is Duration(amount, unit), unit one of day, week, month,
\* year in either form.
IsDurationSpec == ~IsIntegerToken(opts.batchSize) /\ unitText \in Units

\* ... with a positive amount.
IsPositiveDurationSpec == IsDurationSpec /\ durationAmount >= 1

\* Both dates are valid and startDate <= endDate.
RangeOrdered == start # NaN /\ end # NaN /\ start <= end

\* The indices of the returned intervals whose day-span [start, end] holds
\* the day d.
Covering(d) ==
    {k \in 1..Len(dateRanges) : dateRanges[k].start <= d /\ d <= dateRanges[k].end}

\* C1: every interval parseBatchSize returns for Count(n), n >= 1, or for a
\* Duration spec (its amount a positive integer), over startDate <= endDate,
\* has start <= end.
C1_IntervalStartNotAfterEnd ==
    (PartitionReturned /\ (IsCountSpec \/ IsPositiveDurationSpec) /\ RangeOrdered)
        => \A k \in 1..Len(dateRanges) : dateRanges[k].start <= dateRanges[k].end

\* C2: for Count(n), n >= 1, or Duration with a positive amount, over
\* startDate <= endDate, every day of [startDate, endDate] lies in the
\* day-span of exactly one returned interval, and no returned interval
\* holds a day outside [startDate, endDate].
C2_IntervalsPartitionRange ==
    (PartitionReturned /\ (IsCountSpec \/ IsPositiveDurationSpec) /\ RangeOrdered)
        => /\ \A d \in start..end : Cardinality(Covering(d)) = 1
           /\ \A k \in 1..Len(dateRanges) :
                 \A d \in dateRanges[k].start..dateRanges[k].end :
                     start <= d /\ d <= end

\* C3: for Count(n), n >= 1, or Duration with a positive amount, over
\* startDate < endDate, the returned sequence is not empty, its first
\* interval starts at startDate and its last interval ends at endDate.
C3_FirstStartLastEnd ==
    (PartitionReturned /\ (IsCountSpec \/ IsPositiveDurationSpec)
       /\ RangeOrdered /\ start < end)
        => /\ Len(dateRanges) >= 1
           /\ dateRanges[1].start = start
           /\ dateRanges[Len(dateRanges)].end = end

\* C3 witness: a duration partition over startDate < endDate has returned
\* three intervals or more, its last candidate boundary lying past endDate
\* (so the last interval's end was clamped).
C3_Witness ==
    /\ PartitionReturned /\ IsPositiveDurationSpec
    /\ RangeOrdered /\ start < end
    /\ Len(dateRanges) >= 3
    /\ currentStart > end

\* C4: for Count(n), n >= 1, or a Duration spec (its amount a positive
\* integer), partition(spec, d, d) returns exactly the one interval
\* {start: d, end: d}.
C4_SingleDayOneInterval ==
    (PartitionReturned /\ (IsCountSpec \/ IsPositiveDurationSpec)
       /\ RangeOrdered /\ start = end)
        => dateRanges = <<[start |-> start, end |-> start]>>

-----------------------------------------------------------------------------
(* constructSearchQuery (app.js 52-76). *)

\* queryParts.join(" ") (app.js 75).
RECURSIVE Join(_)
Join(parts) ==
    IF Len(parts) = 0 THEN ""
    ELSE IF Len(parts) = 1 THEN parts[1]
    ELSE parts[1] \o " " \o Join(Tail(parts))

\* if (criteria.keyword) queryParts.push(...) (app.js 55-57).
keywordPart(c) ==
    IF Truthy(c.keyword)
    THEN <<"(" \o c.keyword \o " in:body OR " \o c.keyword \o " in:subject)">>
    ELSE <<>>

\* app.js 58-60.
fromPart(c) == IF Truthy(c.from) THEN <<"from:" \o c.from>> ELSE <<>>

\* app.js 61-63.
toPart(c) == IF Truthy(c.to) THEN <<"to:" \o c.to>> ELSE <<>>

\* app.js 64-66.
labelPart(c) == IF Truthy(c.label) THEN <<"label:" \o c.label>> ELSE <<>>

\* The date clause (app.js 67-73).
MutDatePartBeforeOnly(c) ==
    IF Truthy(c.startDate) /\ Truthy(c.endDate)
    THEN <<"after:" \o c.startDate \o " before:" \o c.endDate>>
    ELSE IF Truthy(c.endDate) THEN <<"before:" \o c.endDate>>
    ELSE <<>>
datePart(c) ==
    IF Truthy(c.startDate) /\ Truthy(c.endDate)
    THEN <<"after:" \o c.startDate \o " before:" \o c.endDate>>
    ELSE IF Truthy(c.startDate) THEN <<"after:" \o c.startDate>>
    ELSE IF Truthy(c.endDate) THEN <<"before:" \o c.endDate>>
    ELSE <<>>

\* The pushes in source order, then the join (app.js 53-75).
constructSearchQuery(c) ==
    Join(keywordPart(c) \o fromPart(c) \o toPart(c) \o labelPart(c) \o datePart(c))

\* constructSearchQuery applied to the criteria record.
buildQuery ==
    /\ pc = "query"
    /\ query' = constructSearchQuery(criteria)
    /\ pc' = "built"
    /\ UNCHANGED <<opts, tzEast, err, dateRanges, rangeIdx, criteria, messages,
                   slots, inflight, allMessages, calls, returned, output>>
    /\ UNCHANGED partVars
    /\ UNCHANGED labelVars

\* A criteria record whose every field is absent, empty or given.
QueryCriteria ==
    [keyword : {Undefined, "", "k"}, from : {Undefined, "", "a@x.com"},
     to : {Undefined, "", "b@x.com"}, label : {Undefined, "", "inbox"},
     startDate : {Undefined, "", "2023/01/01"},
     endDate : {Undefined, "", "2023/01/31"}, limit : {NaN}]

InitQuery ==
    /\ criteria \in QueryCriteria
    /\ opts = NoOpts
    /\ tzEast = FALSE
    /\ pc = "query"
    /\ err = ""
    /\ IdlePartition
    /\ rangeIdx = 0
    /\ query = ""
    /\ messages = <<>>
    /\ slots = <<>>
    /\ inflight = {}
    /\ allMessages = <<>>
    /\ calls = <<>>
    /\ returned = <<>>
    /\ output = Undefined
    /\ IdleLabels

NextQuery == buildQuery

SpecQuery == InitQuery /\ [][NextQuery]_vars

-----------------------------------------------------------------------------
(* Claims about constructSearchQuery, checked under SpecQuery. *)

QueryFields == <<"keyword", "from", "to", "label">>

\* The clause the specification gives for one field on its own.
ClauseOf(c, f) ==
    IF f = "keyword"
    THEN "(" \o c.keyword \o " in:body OR " \o c.keyword \o " in:subject)"
    ELSE IF f = "from" THEN "from:" \o c.from
    ELSE IF f = "to" THEN "to:" \o c.to
    ELSE "label:" \o c.label

\* A field is present when it was given, whatever its value.
IsGiven(v) == v # Undefined

\* A field is present when it was given and is not the empty string.
IsGivenNonEmpty(v) == v # Undefined /\ v # ""

\* Presence under either reading.
IsPresent(v, nonEmpty) == IF nonEmpty THEN IsGivenNonEmpty(v) ELSE IsGiven(v)

\* The date clause the specification gives: both dates, only the start,
\* only the end, or none.
DateClause(c, nonEmpty) ==
    IF IsPresent(c.startDate, nonEmpty) /\ IsPresent(c.endDate, nonEmpty)
    THEN <<"after:" \o c.startDate \o " before:" \o c.endDate>>
    ELSE IF IsPresent(c.startDate, nonEmpty) THEN <<"after:" \o c.startDate>>
    ELSE IF IsPresent(c.endDate, nonEmpty) THEN <<"before:" \o c.endDate>>
    ELSE <<>>

\* The clauses of the present fields among keyword, from, to, label, in
\* that order.
RECURSIVE FieldClauses(_, _, _)
FieldClauses(c, k, nonEmpty) ==
    IF k > Len(QueryFields) THEN <<>>
    ELSE (IF IsPresent(c[QueryFields[k]], nonEmpty)
          THEN <<ClauseOf(c, QueryFields[k])>> ELSE <<>>)
         \o FieldClauses(c, k + 1, nonEmpty)

\* The expected clauses, in the fixed order.
ExpectedClauses(c, nonEmpty) == FieldClauses(c, 1, nonEmpty) \o DateClause(c, nonEmpty)

\* s is the clauses cs laid end to end with exactly one blank between two
\* neighbours (no clause of the model's criteria is empty or holds the
\* text of another).
RECURSIVE IsJoined(_, _)
IsJoined(s, cs) ==
    IF Len(cs) = 0 THEN s = ""
    ELSE IF Len(cs) = 1 THEN s = cs[1]
    ELSE /\ Len(s) > Len(cs[1])
         /\ SubSeq(s, 1, Len(cs[1])) = cs[1]
         /\ Char(s, Len(cs[1]) + 1) = " "
         /\ IsJoined(SubSeq(s, Len(cs[1]) + 2, Len(s)), Tail(cs))

\* C10 as stated: the query is one clause per present (given) field, none
\* for an absent one, in the order keyword, from, to, label, date, joined
\* by single blanks; "after:<start> before:<end>", "after:<start>" or
\* "before:<end>" for the date; "" when every field is absent.
C10_OneClausePerGivenField ==
    pc = "built" => IsJoined(query, ExpectedClauses(criteria, FALSE))

\* C10 as amended: the same, a field counting as present when it was given
\* and is not the empty string.
C10_OneClausePerNonEmptyField ==
    pc = "built" => IsJoined(query, ExpectedClauses(criteria, TRUE))

\* C10 witness: a query was built from a criteria record with a keyword, a
\* recipient and an end date but no start date, and one was built from a
\* record with every field absent; here the first.
C10_Witness ==
    /\ pc = "built"
    /\ IsGivenNonEmpty(criteria.keyword) /\ IsGivenNonEmpty(criteria.to)
    /\ ~IsGivenNonEmpty(criteria.from) /\ ~IsGivenNonEmpty(criteria.startDate)
    /\ IsGivenNonEmpty(criteria.endDate)
    /\ query = "(k in:body OR k in:subject) to:b@x.com before:2023/01/31"

-----------------------------------------------------------------------------
(* The "emails search" command (app.js 359-384) and searchEmails (app.js   *)
(* 260-304).  Every await is a point where the command waits for a         *)
(* collaborator; the collaborator's answer is an action of its own.        *)

\* A number in a condition (app.js 268, 380): NaN and 0 are falsy.  An
\* option that was not given is undefined, falsy too, and is kept as NaN.
NumTruthy(n) == n # NaN /\ n # 0

\* options.limit: commander applies parseInt to the text given (app.js 357).
limitOption == IF opts.limit = Undefined THEN NaN ELSE ParseInt(opts.limit)

\* maxResults: limit || 500 (app.js 268).
MutMaxResultsCapped ==
    IF NumTruthy(criteria.limit) THEN Min(criteria.limit, DefaultMaxResults)
    ELSE DefaultMaxResults
maxResults ==
    IF NumTruthy(criteria.limit) THEN criteria.limit ELSE DefaultMaxResults

\* array.slice(0, n) (app.js 381): a negative n counts from the end.
Slice(seq, n) ==
    IF n >= 0 THEN SubSeq(seq, 1, Min(n, Len(seq)))
    ELSE SubSeq(seq, 1, Len(seq) + n)

\* A call to a collaborator: authorize(), gmail.users.messages.list (of
\* batch b, with q and maxResults) or gmail.users.messages.get (of the
\* message in slot j of batch b's list response).
Call(op, b, j, q, mr) ==
    [op |-> op, batch |-> b, slot |-> j, q |-> q, maxResults |-> mr]

\* The message the list response of batch b holds at position j; the
\* provider's ids are opaque, one per batch and position here.
Message(b, j) == [id |-> <<b, j>>, threadId |-> <<b, j>>]

\* let details = {...} (app.js 286-294): the id and threadId of the listed
\* message; the other fields are the provider's, passed through.
Details(message) == [id |-> message.id, threadId |-> message.threadId]

\* The command's entry (app.js 360-369): criteria is built from the options
\* and authorize() is called.
searchEntry ==
    /\ pc = "start"
    /\ criteria' = [keyword |-> opts.keyword, from |-> opts.from,
                    to |-> opts.to, label |-> opts.label,
                    startDate |-> opts.startDate, endDate |-> opts.endDate,
                    limit |-> limitOption]
    /\ calls' = Append(calls, Call("authorize", 0, 0, "", 0))
    /\ pc' = "authorizing"
    /\ UNCHANGED <<opts, tzEast, err, dateRanges, rangeIdx, query, messages,
                   slots, inflight, allMessages, returned, output>>
    /\ UNCHANGED partVars
    /\ UNCHANGED labelVars

\* await authorize() resolves (app.js 369; 22-35).
authorizeResolves ==
    /\ pc = "authorizing"
    /\ pc' = "parse"
    /\ UNCHANGED <<opts, tzEast, err, dateRanges>>
    /\ UNCHANGED partVars
    /\ UNCHANGED searchVars
    /\ UNCHANGED labelVars

\* await authorize() rejects: no saved token and the consent flow fails.
authorizeRejects ==
    /\ pc = "authorizing"
    /\ pc' = "error"
    /\ err' = "AuthError"
    /\ UNCHANGED <<opts, tzEast, dateRanges>>
    /\ UNCHANGED partVars
    /\ UNCHANGED searchVars
    /\ UNCHANGED labelVars

\* await searchEmails(...) has been passed (app.js 376): the loop takes its
\* next range only when the previous call has returned.
MutNoAwait == pc \in {"ranges", "list", "details"}
searchEmailsAwaited == pc = "ranges"

\* The head of for (const range of dateRanges) with a range left (app.js
\* 373-376) and searchEmails up to its first await (app.js 261-269).
\* toISOString throws a RangeError on an Invalid Date.
searchBatch ==
    /\ searchEmailsAwaited
    /\ rangeIdx < Len(dateRanges)
    /\ LET range == dateRanges[rangeIdx + 1]
       IN  IF range.start = NaN \/ range.end = NaN
           THEN /\ pc' = "error"
                /\ err' = "RangeError"
                /\ criteria' =
                     IF range.start = NaN THEN criteria
                     ELSE [criteria EXCEPT !.startDate = ISODate(range.start)]
                /\ UNCHANGED <<rangeIdx, query, inflight, calls>>
           ELSE /\ criteria' = [criteria EXCEPT !.startDate = ISODate(range.start),
                                                !.endDate = ISODate(range.end)]
                /\ query' = constructSearchQuery(criteria')
                /\ rangeIdx' = rangeIdx + 1
                /\ calls' = Append(calls,
                       Call("list", rangeIdx + 1, 0, query', maxResults))
                /\ inflight' = inflight \cup
                       {Call("list", rangeIdx + 1, 0, query', maxResults)}
                /\ pc' = "list"
                /\ err' = err
    /\ UNCHANGED <<opts, tzEast, dateRanges, messages, slots, allMessages,
                   returned, output>>
    /\ UNCHANGED partVars
    /\ UNCHANGED labelVars

\* The list call in flight.
listInFlight == {c \in inflight : c.op = "list"}

\* The get calls in flight.
getsInFlight == {c \in inflight : c.op = "get"}

\* The get calls of the messages of a list response of k messages.
GetCalls(b, k) == [j \in 1..k |-> Call("get", b, j, "", 0)]

\* messages.list resolves with k messages (app.js 265-277): every get call
\* is issued before any of them settles.
listResolves ==
    /\ pc = "list"
    /\ \E c \in listInFlight, k \in 1..MaxMsgs :
          /\ messages' = [j \in 1..k |-> Message(c.batch, j)]
          /\ calls' = calls \o GetCalls(c.batch, k)
          /\ inflight' = (inflight \ {c}) \cup {GetCalls(c.batch, k)[j] : j \in 1..k}
    /\ slots' = <<>>
    /\ pc' = "details"
    /\ UNCHANGED <<opts, tzEast, err, dateRanges, rangeIdx, criteria, query,
                   allMessages, returned, output>>
    /\ UNCHANGED partVars
    /\ UNCHANGED labelVars

\* messages.list resolves without messages: searchEmails returns [] (app.js
\* 271-273) and the action appends nothing (app.js 377).
listResolvesEmpty ==
    /\ pc = "list"
    /\ \E c \in listInFlight : inflight' = inflight \ {c}
    /\ messages' = <<>>
    /\ slots' = <<>>
    /\ returned' = Append(returned, <<>>)
    /\ pc' = "ranges"
    /\ UNCHANGED <<opts, tzEast, err, dateRanges, rangeIdx, criteria, query,
                   allMessages, calls, output>>
    /\ UNCHANGED partVars
    /\ UNCHANGED labelVars

\* messages.list rejects: the catch logs and rethrows (app.js 300-303); the
\* action has no handler, so the command ends in the error.
MutListRejectsSwallowed ==
    /\ pc = "list"
    /\ \E c \in listInFlight : inflight' = inflight \ {c}
    /\ pc' = "ranges"
    /\ err' = "RemoteError"
    /\ returned' = Append(returned, <<>>)
    /\ UNCHANGED <<opts, tzEast, dateRanges, rangeIdx, criteria, query,
                   messages, slots, allMessages, calls, output>>
    /\ UNCHANGED partVars
    /\ UNCHANGED labelVars
listRejects ==
    /\ pc = "list"
    /\ \E c \in listInFlight : inflight' = inflight \ {c}
    /\ pc' = "error"
    /\ err' = "RemoteError"
    /\ UNCHANGED <<opts, tzEast, dateRanges, rangeIdx, criteria, query,
                   messages, slots, allMessages, calls, returned, output>>
    /\ UNCHANGED partVars
    /\ UNCHANGED labelVars

\* Promise.all (app.js 276-277): the value of a promise is put at the index
\* its promise has in the mapped array, whenever it settles.
MutResultIndexByArrival(c) == Cardinality(DOMAIN slots) + 1
resultIndex(c) == c.slot

\* One messages.get resolves (app.js 278-295): its details go to its own
\* position of the Promise.all result.  After a rejection the result is
\* dropped.
getResolves ==
    /\ pc \in {"details", "error"}
    /\ \E c \in getsInFlight :
          /\ inflight' = inflight \ {c}
          /\ slots' = IF pc = "details"
                      THEN (resultIndex(c) :> Details(messages[c.slot])) @@ slots
                      ELSE slots
    /\ UNCHANGED <<opts, tzEast, pc, err, dateRanges, rangeIdx, criteria,
                   query, messages, allMessages, calls, returned, output>>
    /\ UNCHANGED partVars
    /\ UNCHANGED labelVars

\* One messages.get rejects: Promise.all rejects at once, the catch logs
\* and rethrows (app.js 276, 300-303); the other get calls stay in flight.
getRejects ==
    /\ pc \in {"details", "error"}
    /\ \E c \in getsInFlight : inflight' = inflight \ {c}
    /\ pc' = "error"
    /\ err' = IF pc = "details" THEN "RemoteError" ELSE err
    /\ UNCHANGED <<opts, tzEast, dateRanges, rangeIdx, criteria, query,
                   messages, slots, allMessages, calls, returned, output>>
    /\ UNCHANGED partVars
    /\ UNCHANGED labelVars

\* detailedMessages, in the order of messages (app.js 276-299).
detailedMessages == [j \in 1..Len(messages) |-> slots[j]]

\* Promise.all resolves, searchEmails returns detailedMessages (app.js 299)
\* and the action appends them (app.js 376-377).
MutAppendFront == detailedMessages \o allMessages
appendMessages == allMessages \o detailedMessages

searchEmailsReturns ==
    /\ pc = "details"
    /\ getsInFlight = {}
    /\ allMessages' = appendMessages
    /\ returned' = Append(returned, detailedMessages)
    /\ pc' = "ranges"
    /\ UNCHANGED <<opts, tzEast, err, dateRanges, rangeIdx, criteria, query,
                   messages, slots, inflight, calls, output>>
    /\ UNCHANGED partVars
    /\ UNCHANGED labelVars

\* The loop is over (app.js 380-383): the limit, when truthy, cuts
\* allMessages, and formatOutput is handed the result.
searchFinish ==
    /\ searchEmailsAwaited
    /\ ~(rangeIdx < Len(dateRanges))
    /\ allMessages' = IF NumTruthy(limitOption)
                      THEN Slice(allMessages, limitOption) ELSE allMessages
    /\ output' = allMessages'
    /\ pc' = "done"
    /\ UNCHANGED <<opts, tzEast, err, dateRanges, rangeIdx, criteria, query,
                   messages, slots, inflight, calls, returned>>
    /\ UNCHANGED partVars
    /\ UNCHANGED labelVars

-----------------------------------------------------------------------------
(* The search command over every input of the bounded sets. *)

SearchAnchor == DayNum(2024, 1, 31)

SearchDates ==
    {<<FormatDate(SearchAnchor), FormatDate(SearchAnchor + span)>> :
        span \in (0 - 1)..MaxSearchSpan}
    \cup {<<Undefined, Undefined>>}

SearchTokens ==
    {ToString(n) : n \in 0..MaxSearchCount}
    \cup {"1 day", "1 month", "abc", "1 fortnight"}

LimitTexts ==
    {Undefined, "0", "1", ToString(MaxMsgs + 1), ToString(DefaultMaxResults + 1)}

SearchFilters ==
    {[keyword |-> Undefined, from |-> Undefined],
     [keyword |-> "k", from |-> "a@x.com"]}

Init ==
    /\ \E d \in SearchDates, tok \in SearchTokens, l \in LimitTexts,
          f \in SearchFilters :
          opts = [NoOpts EXCEPT !.keyword = f.keyword, !.from = f.from,
                                !.startDate = d[1], !.endDate = d[2],
                                !.limit = l, !.batchSize = tok]
    /\ tzEast \in BOOLEAN
    /\ pc = "start"
    /\ err = ""
    /\ IdlePartition
    /\ IdleSearch
    /\ IdleLabels

Next ==
    \/ searchEntry
    \/ authorizeResolves
    \/ authorizeRejects
    \/ parseBatchSizeEntry
    \/ countIteration
    \/ durationIteration
    \/ parseBatchSizeReturn
    \/ searchBatch
    \/ listResolves
    \/ listResolvesEmpty
    \/ listRejects
    \/ getResolves
    \/ getRejects
    \/ searchEmailsReturns
    \/ searchFinish

Spec == Init /\ [][Next]_vars

-----------------------------------------------------------------------------
(* Claims about the search command, checked under Spec. *)

\* The positions in calls of the remote search calls (list-messages and
\* get-message-detail).
RemoteCalls == {k \in 1..Len(calls) : calls[k].op \in {"list", "get"}}

\* The positions in calls of the list calls.
ListCalls == {k \in 1..Len(calls) : calls[k].op = "list"}

\* The two dates given are valid and startDate is after endDate.
InvalidRange ==
    /\ ParseDate(opts.startDate) # NaN
    /\ ParseDate(opts.endDate) # NaN
    /\ ParseDate(opts.startDate) > ParseDate(opts.endDate)

\* The batch-size token is neither an integer nor "<amount> <unit>" with a
\* unit among day, week, month, year (singular or plural).
MalformedBatchSpec ==
    /\ ~IsIntegerToken(opts.batchSize)
    /\ ~(Len(Split(opts.batchSize)) = 2 /\ unitText \in Units)

\* The concatenation of a sequence of sequences, in order.
RECURSIVE Flatten(_)
Flatten(seqs) ==
    IF Len(seqs) = 0 THEN <<>> ELSE Head(seqs) \o Flatten(Tail(seqs))

\* C5: when startDate is after endDate, or the batch-size token is
\* malformed, no remote search call (list-messages or get-message-detail)
\* is ever issued.
C5_InvalidInputNoRemoteCall ==
    (InvalidRange \/ MalformedBatchSpec) => RemoteCalls = {}

\* C6: when the command completes (every batch call having succeeded) and
\* limit is a positive integer, what is rendered is exactly the first
\* min(limit, total) records of the concatenation, in interval order, of
\* what the per-batch calls returned, and every batch of the partition was
\* called, one list call each.
C6_LimitCutsConcatenation ==
    (pc = "done" /\ limitOption >= 1)
        => /\ output = SubSeq(Flatten(returned), 1,
                              Min(limitOption, Len(Flatten(returned))))
           /\ Len(returned) = Len(dateRanges)
           /\ Cardinality(ListCalls) = Len(dateRanges)
           /\ \A b \in 1..Len(dateRanges) : \E k \in ListCalls : calls[k].batch = b

\* C6 witness: the command completed with a limit that the records of the
\* first batch do not reach and the records of all batches exceed, so the
\* cut falls inside a later batch.
C6_Witness ==
    /\ pc = "done" /\ limitOption >= 1
    /\ Len(returned) >= 2
    /\ Len(returned[1]) >= 1
    /\ Len(returned[1]) < limitOption
    /\ Len(Flatten(returned)) > limitOption
    /\ Len(output) = limitOption

\* C7: once a list call or a detail call has failed, the command is in its
\* error, nothing is rendered (not even the records of completed batches)
\* and no call is issued any more: neither the failed call again nor a
\* list call of a later batch.
C7_FailureAborts ==
    [][(err' = "RemoteError")
          => (pc' = "error" /\ output' = Undefined /\ calls' = calls)]_vars

\* C7 witness: a detail call of a later batch failed while another was in
\* flight, after an earlier batch had returned records, with ranges left.
C7_Witness ==
    /\ pc = "error" /\ err = "RemoteError"
    /\ Len(returned) >= 1 /\ Len(allMessages) >= 1
    /\ rangeIdx < Len(dateRanges)
    /\ inflight # {}

\* C8 as stated: every list call's maxResults is the smaller of limit and
\* the default cap (500) when limit is set, and the default cap when limit
\* is absent.
C8_MaxResultsIsMinOfLimitAndCap ==
    \A k \in ListCalls :
        /\ limitOption >= 1
              => calls[k].maxResults = Min(limitOption, DefaultMaxResults)
        /\ opts.limit = Undefined => calls[k].maxResults = DefaultMaxResults

\* C8 as amended: every list call's maxResults is limit itself when limit
\* is set, and the default cap (500) when limit is absent.
C8_MaxResultsIsLimitOrDefault ==
    \A k \in ListCalls :
        /\ limitOption >= 1 => calls[k].maxResults = limitOption
        /\ opts.limit = Undefined => calls[k].maxResults = DefaultMaxResults

\* C8 witness: the list call of a second batch was issued under a limit
\* above the default cap.
C8_Witness ==
    /\ limitOption > DefaultMaxResults
    /\ \E k \in ListCalls : calls[k].batch = 2 /\ calls[k].maxResults = limitOption

\* C9: the calls in flight are all of one batch, and a list call is issued
\* only when no call is in flight and every earlier batch has returned and
\* its records are in the accumulated result.
C9_BatchesSequential ==
    [][/\ \A c1, c2 \in inflight' : c1.batch = c2.batch
       /\ (Len(calls') = Len(calls) + 1 /\ calls'[Len(calls')].op = "list")
             => /\ inflight = {}
                /\ Len(returned) = calls'[Len(calls')].batch - 1
                /\ allMessages = Flatten(returned)]_vars

\* C9 witness: the list call of the third batch is in flight, the first
\* two batches having returned MaxMsgs records each.
C9_Witness ==
    /\ pc = "list"
    /\ \E c \in inflight : c.op = "list" /\ c.batch = 3
    /\ Len(returned) = 2
    /\ Len(returned[1]) = MaxMsgs /\ Len(returned[2]) = MaxMsgs
    /\ Len(allMessages) = 2 * MaxMsgs

-----------------------------------------------------------------------------
(* The "labels list" command (app.js 332-344) and listLabels (app.js
   144-158), with the labels.list request in flight. *)

MaxLabels == 2

LabelNames == {"INBOX", "SENT", "Work"}

\* --output <format> (app.js 336): the six formats formatOutput knows and
\* one it does not.
OutputFormats == {"json", "jsonl", "csv", "text", "table", "markdown", "xml"}

\* The label lists of n labels.
LabelLists(n) == {[k \in 1..n |-> [name |-> f[k]]] : f \in [1..n -> LabelNames]}

\* res.data.labels of a successful response: absent, or a list of labels.
LabelResponses ==
    {NoLabels}
    \cup {[defined |-> TRUE, items |-> l] :
            l \in UNION {LabelLists(n) : n \in 0..MaxLabels}}

\* if (!labels || labels.length === 0) (app.js 150)
noLabelsFound(response) == ~response.defined \/ Len(response.items) = 0

\* What listLabels prints for a response (app.js 151, 154-157).
labelLines(response) ==
    IF noLabelsFound(response)
    THEN <<"No labels found.">>
    ELSE <<"Labels:">>
         \o [k \in 1..Len(response.items) |-> "- " \o response.items[k].name]

\* The value listLabels resolves to: "return;" on line 152 and the end of
\* the body on line 158, neither with a value.
listLabelsResult == Undefined

\* labels.map((label) => ({ name: label.name })) (app.js 341)
nameRecords(items) == [k \in 1..Len(items) |-> [name |-> items[k].name]]

\* The command's entry (app.js 337-338): authorize() is called.
labelsEntry ==
    /\ pc = "labelsStart"
    /\ calls' = Append(calls, Call("authorize", 0, 0, "", 0))
    /\ pc' = "labelsAuthorizing"
    /\ UNCHANGED <<opts, tzEast, err, dateRanges, rangeIdx, criteria, query,
                   messages, slots, inflight, allMessages, returned, output>>
    /\ UNCHANGED partVars
    /\ UNCHANGED labelVars

\* await authorize() resolves and listLabels issues its request (app.js
\* 338-339, 145-148).
labelsAuthorizeResolves ==
    /\ pc = "labelsAuthorizing"
    /\ calls' = Append(calls, Call("labels.list", 0, 0, "", 0))
    /\ inflight' = {Call("labels.list", 0, 0, "", 0)}
    /\ pc' = "labelsListing"
    /\ UNCHANGED <<opts, tzEast, err, dateRanges, rangeIdx, criteria, query,
                   messages, slots, allMessages, returned, output>>
    /\ UNCHANGED partVars
    /\ UNCHANGED labelVars

\* await authorize() rejects (app.js 338).
labelsAuthorizeRejects ==
    /\ pc = "labelsAuthorizing"
    /\ pc' = "error"
    /\ err' = "AuthError"
    /\ UNCHANGED <<opts, tzEast, dateRanges>>
    /\ UNCHANGED partVars
    /\ UNCHANGED searchVars
    /\ UNCHANGED labelVars

\* The labels.list request resolves (app.js 146-158): listLabels prints
\* the names, or that there are none, and resolves without a value.
labelsListResolves ==
    /\ pc = "labelsListing"
    /\ \E response \in LabelResponses :
          /\ labels' = response
          /\ stdout' = stdout \o labelLines(response)
    /\ inflight' = {}
    /\ pc' = "labelsReturned"
    /\ UNCHANGED <<opts, tzEast, err, dateRanges, rangeIdx, criteria, query,
                   messages, slots, allMessages, calls, returned, output>>
    /\ UNCHANGED partVars

\* The labels.list request rejects (app.js 146): listLabels has no catch,
\* the action rejects.
labelsListRejects ==
    /\ pc = "labelsListing"
    /\ inflight' = {}
    /\ pc' = "error"
    /\ err' = "RemoteError"
    /\ UNCHANGED <<opts, tzEast, dateRanges, rangeIdx, criteria, query,
                   messages, slots, allMessages, calls, returned, output>>
    /\ UNCHANGED partVars
    /\ UNCHANGED labelVars

\* The action continues after await listLabels(auth) (app.js 339-343):
\* .map is called on the value listLabels resolved to, and formatOutput is
\* handed the name records.  .map on undefined throws a TypeError.
labelsRender ==
    /\ pc = "labelsReturned"
    /\ IF listLabelsResult = Undefined
       THEN /\ pc' = "error"
            /\ err' = "TypeError"
            /\ UNCHANGED output
       ELSE /\ pc' = "done"
            /\ output' = nameRecords(listLabelsResult)
            /\ UNCHANGED err
    /\ UNCHANGED <<opts, tzEast, dateRanges, rangeIdx, criteria, query,
                   messages, slots, inflight, allMessages, calls, returned>>
    /\ UNCHANGED partVars
    /\ UNCHANGED labelVars

InitLabels ==
    /\ \E f \in OutputFormats : opts = [output |-> f]
    /\ tzEast = FALSE
    /\ pc = "labelsStart"
    /\ err = ""
    /\ IdlePartition
    /\ IdleSearch
    /\ IdleLabels

NextLabels ==
    \/ labelsEntry
    \/ labelsAuthorizeResolves
    \/ labelsAuthorizeRejects
    \/ labelsListResolves
    \/ labelsListRejects
    \/ labelsRender

SpecLabels == InitLabels /\ [][NextLabels]_vars

\* The command has ended with the labels.list request having succeeded on
\* an account with at least one label.
LabelsListedAndEnded ==
    /\ pc \in {"done", "error"}
    /\ labels.defined
    /\ Len(labels.items) >= 1

\* C11: when the account has at least one label and the label request
\* succeeds, "labels list" completes without an error and formatOutput is
\* handed one name record per label, in the format of --output.
C11_LabelsListRenders ==
    LabelsListedAndEnded
        => /\ pc = "done"
           /\ err = ""
           /\ output = nameRecords(labels.items)

-----------------------------------------------------------------------------
(* Order of the records of one batch (app.js 275-299). *)

\* The records are those of the listed messages, one per message and in
\* the order of the list response.
InListingOrder(records, listed) ==
    /\ Len(records) = Len(listed)
    /\ \A j \in 1..Len(listed) :
          /\ records[j].id = listed[j].id
          /\ records[j].threadId = listed[j].threadId

\* C12: within one batch the records searchEmails returns are in the order
\* of the message ids of the list response, one record per listed message,
\* whatever the order in which the concurrent detail fetches complete:
\* every fetch that has completed has put its record at the position of
\* its message, and every batch that has returned holds its records in the
\* order of its list response.
C12_RecordsInListingOrder ==
    /\ pc = "details"
          => \A j \in DOMAIN slots :
                /\ j \in 1..Len(messages)
                /\ slots[j].id = messages[j].id
    /\ (pc \in {"ranges", "done"} /\ Len(returned) >= 1)
          => InListingOrder(returned[Len(returned)], messages)
    /\ \A b \in 1..Len(returned) :
          \A j \in 1..Len(returned[b]) : returned[b][j].id = Message(b, j).id

\* C12 witness: in the second batch the fetch of the last listed message
\* has completed before the fetch of the first, the first batch having
\* returned one record per listed message.
C12_Witness ==
    /\ pc = "details"
    /\ rangeIdx = 2
    /\ Len(returned) = 1 /\ Len(returned[1]) = MaxMsgs
    /\ Len(messages) = MaxMsgs
    /\ MaxMsgs \in DOMAIN slots
    /\ 1 \notin DOMAIN slots
    /\ slots[MaxMsgs].id = messages[MaxMsgs].id

-----------------------------------------------------------------------------
(* The duration loop of parseBatchSize (app.js 201-215). *)

\* The loop is running for Duration(amount, unit), amount a positive
\* integer, over startDate <= endDate.
InDurationLoop == pc = "duration" /\ IsPositiveDurationSpec /\ RangeOrdered

\* The unclamped candidate boundary of the iteration at hand.
Candidate == add(currentStart, normalizedUnit, durationAmount)

\* A step of the loop is an iteration or the return: an iteration is taken
\* only while currentStart < endDate, moves currentStart strictly forward
\* to the unclamped candidate and appends {currentStart, min(candidate,
\* endDate)}; the return is taken only once currentStart >= endDate and
\* hands back the intervals produced.
DurationLoopStep ==
    InDurationLoop
        => /\ intervals' # intervals
                 => /\ currentStart < end
                    /\ Candidate > currentStart
                    /\ currentStart' = Candidate
                    /\ intervals' = Append(intervals,
                           [start |-> currentStart, end |-> Min(Candidate, end)])
           /\ pc' # pc
                 => /\ currentStart >= end
                    /\ pc' = "ranges"
                    /\ dateRanges' = intervals

\* C13: for every Duration(amount, unit) with amount a positive integer and
\* unit one of day, week, month, year, and every startDate <= endDate, the
\* duration loop terminates; each iteration strictly advances currentStart
\* to the unclamped candidate, each produced interval ends at min(candidate,
\* endDate), and the loop stops once currentStart >= endDate.
C13_DurationLoopTerminates ==
    /\ [][DurationLoopStep]_vars
    /\ InDurationLoop ~> PartitionReturned

\* C13 witness: "1 month" from 2024-01-31 has returned at least two
\* intervals, the first ending at the month-end candidate 2024-02-29, the
\* last clamped to endDate, with currentStart left at the unclamped
\* candidate beyond endDate.
C13_Witness ==
    /\ PartitionReturned
    /\ IsPositiveDurationSpec /\ RangeOrdered
    /\ normalizedUnit = "months" /\ durationAmount = 1
    /\ start = DayNum(2024, 1, 31)
    /\ Len(dateRanges) >= 2
    /\ dateRanges[1].end = DayNum(2024, 2, 29)
    /\ dateRanges[Len(dateRanges)].end = end
    /\ currentStart > end

=============================================================================
